---- MODULE Spec2Model ----
(***************************************************************************)
(* NodeReplicate (src/index.js): a client of a remote prediction service.  *)
(* One client instance, a set of concurrent calls ("tasks") on it, and the *)
(* HTTP transport and the remote service as the environment.  A task       *)
(* suspends at every await of the source: each transport call and each     *)
(* delay.  Strings are sequences of tokens, so that building a URL or a    *)
(* message is concatenation and String.split is computed, not assumed.     *)
(***************************************************************************)
EXTENDS Integers, Sequences, FiniteSets, TLC

VARIABLES client, task, remote

vars == <<client, task, remote>>

(* ------------------------------ bounds --------------------------------- *)

\* Longest model identifier, in tokens.
MaxIdLen == 3

\* Most polls of one run that the remote answers with a pending status.
MaxPolls == 2

\* The same, for each of two concurrent runs.
MaxConcPolls == 1

\* Most get calls of a run whose prediction never turns terminal.
MaxStuckPolls == 4

(* --------------------------- program constants ------------------------- *)

DefaultBaseUrl == "https://replicate.com/api/models"

DefaultTimeout == 250

DefaultMaxRetries == 3

\* this.apiKey = options.apiKey || null
NoApiKey == "null"

\* What a template literal prints for a value that is undefined.
Undefined == "undefined"

(* ------------------------------ strings -------------------------------- *)

Colon == ":"

IdAlphabet == {"m", Colon}

RECURSIVE SeqsUpTo(_, _)
SeqsUpTo(S, n) ==
  IF n = 0 THEN {<<>>}
  ELSE LET shorter == SeqsUpTo(S, n - 1)
       IN  shorter \cup {Append(s, c) : s \in shorter, c \in S}

ModelIds == SeqsUpTo(IdAlphabet, MaxIdLen)

HasColon(s) == \E k \in 1..Len(s) : s[k] = Colon

\* Index of the first separator in s at or after k, Len(s) + 1 if none.
RECURSIVE NextSep(_, _, _)
NextSep(s, sep, k) ==
  IF k > Len(s) THEN Len(s) + 1
  ELSE IF s[k] = sep THEN k
  ELSE NextSep(s, sep, k + 1)

\* String.prototype.split(sep): every piece between separators, empty ones
\* included; a string without the separator gives one piece.
RECURSIVE SplitFrom(_, _, _)
SplitFrom(s, sep, k) ==
  LET e == NextSep(s, sep, k)
      piece == SubSeq(s, k, e - 1)
  IN  IF e > Len(s) THEN <<piece>>
      ELSE <<piece>> \o SplitFrom(s, sep, e + 1)

Split(s, sep) == SplitFrom(s, sep, 1)

\* const [a, b] = parts: element k of a destructured array, printed in a
\* template literal ("undefined" when the array is shorter).
Destructure(parts, k) ==
  IF k <= Len(parts) THEN parts[k] ELSE <<Undefined>>

(* ------------------------------ client --------------------------------- *)

\* Options given to the constructor.  0 stands for a number option that is
\* absent (or 0: both are falsy), NoApiKey for an absent key.
Options ==
  [timeout : {0, 100}, maxRetries : {0, 1, 2}, apiKey : {NoApiKey, "key"}]

Constructor(o) ==
  [baseUrl    |-> DefaultBaseUrl,
   timeout    |-> IF o.timeout = 0 THEN DefaultTimeout ELSE o.timeout,
   maxRetries |-> IF o.maxRetries = 0 THEN DefaultMaxRetries ELSE o.maxRetries,
   apiKey     |-> o.apiKey]

(* ----------------------------- predictions ----------------------------- *)

\* A prediction as the remote service reports it (spec section 6: status,
\* output, error, version_id, uuid, version.model.absolute_url).  An absent
\* output or error is undefined.
Pred(status, output, error, uuid) ==
  [status |-> status, output |-> output, error |-> error, uuid |-> uuid,
   version_id |-> "ver", absolute_url |-> "/owner/model"]

NoPred == Pred("none", Undefined, Undefined, "none")

PendingStatuses == {"starting", "processing"}

TerminalPreds(uuid) ==
  {Pred("succeeded", o, Undefined, uuid) : o \in {"v1", "v2"}}
    \cup {Pred("failed", Undefined, e, uuid) : e \in {"boom", "bang"}}
    \cup {Pred("canceled", o, Undefined, uuid) : o \in {Undefined, "v1"}}

PendingPreds(uuid) ==
  {Pred(s, Undefined, Undefined, uuid) : s \in PendingStatuses}

\* A prediction that is polled has left 'starting'.
PolledPendingPreds(uuid) == {Pred("processing", Undefined, Undefined, uuid)}

\* The predictions a caller hands to get, checkStatus and cancelPrediction.
ArgPreds ==
  {Pred(s, Undefined, Undefined, u) : s \in {"starting"}, u \in {"u1", "u2"}}

(* ------------------------- requests and responses ---------------------- *)

NoRequest == [method |-> "none", url |-> <<>>, auth |-> <<>>, body |-> "none"]

\* ...(this.apiKey ? {'Authorization': `Bearer ${this.apiKey}`} : {})
AuthHeader(c) ==
  IF c.apiKey # NoApiKey THEN <<"Bearer ", c.apiKey>> ELSE <<>>

\* The shape every response takes in the model; json is what response.json()
\* resolves to and text what response.text() resolves to.
Response(ok, status, statusText, text, json) ==
  [ok |-> ok, status |-> status, statusText |-> statusText, text |-> text,
   json |-> json]

NoResponse == Response(FALSE, "none", "none", "none", [none |-> TRUE])

OkResponse(json) == Response(TRUE, "200", "OK", "none", json)

\* The non-success responses of the transport.
ErrorResponses ==
  {Response(FALSE, "404", "Not Found", "missing", [none |-> TRUE]),
   Response(FALSE, "500", "Internal Server Error", "oops", [none |-> TRUE])}

(* ------------------------------- errors -------------------------------- *)

\* An Error is its message.  <<>>: nothing was thrown.
NoError == <<>>

\* What the transport itself throws (a network failure).
NetworkErrors == {<<"network failure">>}

\* `Final attempt failed with status ${response.status}: ${responseBody}`
FinalAttemptError(r) ==
  <<"Final attempt failed with status ", r.status, ": ", r.text>>

MaxRetriesError == <<"Max retries reached for API request.">>

\* `Prediction failed: ${prediction.error}`
PredictionFailedError(pred) == <<"Prediction failed: ", pred.error>>

\* The message of the error an operation raises on a response that is not ok.
NotOkPrefix(fn) ==
  CASE fn = "create" -> "Failed to create prediction: "
    [] fn = "get" -> "Failed to get prediction details: "
    [] fn = "cancelPrediction" -> "Failed to cancel prediction: "
    [] fn = "listModels" -> "Failed to list models: "
    [] fn = "getModelMetadata" -> "Failed to get model metadata: "

NotOkError(fn, r) == <<NotOkPrefix(fn), r.statusText>>

(* -------------------------------- tasks -------------------------------- *)

\* One call on the client, before it starts.  op, model and arg are the call;
\* pc, fn, i, req, prediction are the locals of the functions on its stack;
\* result and error are its outcome; the rest records what it has done.
NewTask(op, model, arg) ==
  [op |-> op, model |-> model, arg |-> arg,
   pc |-> "start", fn |-> "none", i |-> 0, req |-> NoRequest,
   prediction |-> NoPred, result |-> Undefined, error |-> NoError,
   fwr |-> "none", fwrRet |-> NoResponse,
   calls |-> 0, fails |-> 0, throws |-> 0, retryDelays |-> 0,
   lastOutcome |-> "none", lastResp |-> NoResponse, lastThrown |-> NoError,
   delayMs |-> 0,
   totalCalls |-> 0, gets |-> 0, pendingGets |-> 0, pollDelays |-> 0,
   createPred |-> NoPred, terminalSeen |-> 0]

Calls ==
  {NewTask(op, m, NoPred) : op \in {"run", "create", "getModelMetadata"},
                            m \in ModelIds}
    \cup {NewTask(op, <<>>, a) : op \in {"get", "checkStatus",
                                         "cancelPrediction"},
                                 a \in ArgPreds}
    \cup {NewTask("listModels", <<>>, NoPred)}

(* ------------------------- the code, step by step ---------------------- *)

\* An error nobody catches ends the call: no function of the class has a
\* try/catch but fetchWithRetry, so it propagates to the caller of the call.
Throw(t, e) == [t EXCEPT !.pc = "done", !.error = e]

\* The call returns v.
Return(t, v) == [t EXCEPT !.pc = "done", !.result = v]

\* A terminal test that leaves out 'failed'.
IsTerminalNoFailed(status) == status \in {"canceled", "succeeded"}

\* A terminal test that leaves out 'canceled'.
IsTerminalNoCanceled(status) == status \in {"succeeded", "failed"}

\* validStatuses.includes(status)
IsTerminal(status) == status \in {"canceled", "succeeded", "failed"}

\* A fetchWithRetry that returns whatever response the transport resolves with.
AttemptSucceededAlways(r) == TRUE

\* if (response.ok) return response
AttemptSucceeded(r) == r.ok

\* A loop that stops one attempt early.
LoopGuardOffByOne(i, maxRetries) == i < maxRetries - 1

\* for (...; i < this.maxRetries; ...)
LoopGuard(i, maxRetries) == i < maxRetries

\* A loop that never takes an attempt for its last.
IsFinalAttemptNever(i, maxRetries) == FALSE

\* i === this.maxRetries - 1
IsFinalAttempt(i, maxRetries) == i = maxRetries - 1

\* The head of fetchWithRetry's loop: the next transport call is issued, or
\* the loop is over and the function throws.
Attempt(t, c) ==
  IF LoopGuard(t.i, c.maxRetries)
    THEN [t EXCEPT !.pc = "fetch", !.calls = @ + 1, !.totalCalls = @ + 1]
    ELSE Throw([t EXCEPT !.fwr = "threw"], MaxRetriesError)

\* A fetchWithRetry whose attempt counter lives on across calls.
EnterFetchKeepsBudget(t, c, fn, req) ==
  Attempt([t EXCEPT !.fn = fn, !.req = req,
                    !.fwr = "active", !.fwrRet = NoResponse,
                    !.fails = 0, !.throws = 0,
                    !.retryDelays = 0, !.lastOutcome = "none",
                    !.lastResp = NoResponse, !.lastThrown = NoError], c)

\* fetchWithRetry(url, options), called by operation fn.
EnterFetch(t, c, fn, req) ==
  Attempt([t EXCEPT !.fn = fn, !.req = req, !.i = 0,
                    !.fwr = "active", !.fwrRet = NoResponse,
                    !.calls = 0, !.fails = 0, !.throws = 0,
                    !.retryDelays = 0, !.lastOutcome = "none",
                    !.lastResp = NoResponse, !.lastThrown = NoError], c)

\* A retry delay that grows with the attempt number.
RetryDelayBackoff(t, c) ==
  [t EXCEPT !.pc = "retryDelay", !.retryDelays = @ + 1,
            !.delayMs = c.timeout * (t.i + 2)]

\* await this.delay(this.timeout) at the end of the loop body.
RetryDelay(t, c) ==
  [t EXCEPT !.pc = "retryDelay", !.retryDelays = @ + 1, !.delayMs = c.timeout]

\* A catch block that replaces the last attempt's error by the generic one.
CatchThrowsGeneric(t, c, e) ==
  IF IsFinalAttempt(t.i, c.maxRetries)
    THEN Throw([t EXCEPT !.fwr = "threw"], MaxRetriesError)
    ELSE RetryDelay(t, c)

\* A catch block that lets run go on polling after a poll has used up its
\* attempts.
CatchSwallowsPollFailure(t, c, e) ==
  IF IsFinalAttempt(t.i, c.maxRetries)
    THEN IF t.op = "run" /\ t.fn = "get"
           THEN [t EXCEPT !.fwr = "threw", !.pc = "pollDelay",
                          !.pollDelays = @ + 1, !.delayMs = c.timeout]
           ELSE Throw([t EXCEPT !.fwr = "threw"], e)
    ELSE RetryDelay(t, c)

\* The catch block: the last attempt's error is thrown on, any other is
\* followed by the delay.
Catch(t, c, e) ==
  IF IsFinalAttempt(t.i, c.maxRetries)
    THEN Throw([t EXCEPT !.fwr = "threw"], e)
    ELSE RetryDelay(t, c)

\* create(model, inputs), up to its call of the transport.
CreateCall(t, c) ==
  LET parts == Split(t.model, Colon)
      path == Destructure(parts, 1)
      version == Destructure(parts, 2)
      url == <<c.baseUrl, "/">> \o path \o <<"/versions/">> \o version
               \o <<"/predictions">>
  IN  EnterFetch(t, c, "create",
        [method |-> "POST", url |-> url, auth |-> AuthHeader(c),
         body |-> "inputs"])

\* The status URL of a prediction.
PredictionUrl(c, pred) ==
  <<c.baseUrl, pred.absolute_url, "/versions/", pred.version_id,
    "/predictions/", pred.uuid>>

\* get(prediction), up to its call of the transport.
GetCall(t, c, pred) ==
  EnterFetch([t EXCEPT !.gets = @ + 1], c, "get",
    [method |-> "GET", url |-> PredictionUrl(c, pred), auth |-> <<>>,
     body |-> "none"])

\* cancelPrediction(prediction), up to its call of the transport.
CancelCall(t, c, pred) ==
  EnterFetch(t, c, "cancelPrediction",
    [method |-> "POST", url |-> PredictionUrl(c, pred) \o <<"/cancel">>,
     auth |-> AuthHeader(c), body |-> "none"])

\* listModels(), up to its call of the transport.
ListCall(t, c) ==
  EnterFetch(t, c, "listModels",
    [method |-> "GET", url |-> <<c.baseUrl>>, auth |-> <<>>, body |-> "none"])

\* getModelMetadata(modelPath), up to its call of the transport.
MetadataCall(t, c) ==
  EnterFetch(t, c, "getModelMetadata",
    [method |-> "GET", url |-> <<c.baseUrl, "/">> \o t.model, auth |-> <<>>,
     body |-> "none"])

\* A run that returns the output whatever the terminal status.
RunOutcomeSwallow(t, pred) == Return(t, pred.output)

\* What run does with a prediction whose status ended the loop.
RunOutcome(t, pred) ==
  IF pred.status = "failed"
    THEN Throw(t, PredictionFailedError(pred))
    ELSE Return(t, pred.output)

\* A run that polls again at once, without the delay.
RunLoopNoDelay(t, c) ==
  IF ~IsTerminal(t.prediction.status)
    THEN GetCall(t, c, t.prediction)
    ELSE RunOutcome(t, t.prediction)

\* A run with an overall bound: it gives up after two polls.
RunLoopGivesUp(t, c) ==
  IF ~IsTerminal(t.prediction.status) /\ t.gets < 2
    THEN [t EXCEPT !.pc = "pollDelay", !.pollDelays = @ + 1,
                   !.delayMs = c.timeout]
    ELSE RunOutcome(t, t.prediction)

\* A run that waits twice before every poll.
RunLoopDoubleDelay(t, c) ==
  IF ~IsTerminal(t.prediction.status)
    THEN [t EXCEPT !.pc = "pollDelay", !.pollDelays = @ + 2,
                   !.delayMs = c.timeout]
    ELSE RunOutcome(t, t.prediction)

\* run, from the test of its while loop on: another delay, or the outcome.
RunLoop(t, c) ==
  IF ~IsTerminal(t.prediction.status)
    THEN [t EXCEPT !.pc = "pollDelay", !.pollDelays = @ + 1,
                   !.delayMs = c.timeout]
    ELSE RunOutcome(t, t.prediction)

\* run assigns what create or get returned to its local prediction.
RunAssign(t, pred) ==
  [t EXCEPT !.prediction = pred,
            !.terminalSeen =
              IF pred.status \in PendingStatuses THEN @ ELSE @ + 1]

\* A checkStatus that returns the output instead of the status.
CheckStatusResultOutput(details) == details.output

\* return details.status
CheckStatusResult(details) == details.status

\* if (!response.ok) throw ...: the test after fetchWithRetry in each operation.
ResponseOk(r) == r.ok

\* fetchWithRetry has returned r to the operation t.fn, which reads the body
\* and returns to its caller: run, checkStatus, or the caller of the call.
AfterFetch(t, c, r) ==
  IF ~ResponseOk(r) THEN Throw(t, NotOkError(t.fn, r))
  ELSE CASE t.fn = "create" ->
              LET data == r.json
                  u == [t EXCEPT !.createPred = data]
              IN  IF t.op = "run" THEN RunLoop(RunAssign(u, data), c)
                  ELSE Return(u, data)
         [] t.fn = "get" ->
              LET pred == r.json.prediction
                  u == [t EXCEPT !.pendingGets =
                          IF pred.status \in PendingStatuses
                            THEN @ + 1 ELSE @]
              IN  CASE t.op = "run" -> RunLoop(RunAssign(u, pred), c)
                    [] t.op = "checkStatus" ->
                         Return(u, CheckStatusResult(pred))
                    [] OTHER -> Return(u, pred)
         [] OTHER -> Return(t, r.json)

\* A fetchWithRetry that hands the last response to its caller, ok or not.
OnResponseReturnsLast(t, c, r) ==
  LET u == [t EXCEPT !.lastResp = r,
                     !.lastOutcome = IF r.ok THEN "ok" ELSE "notok",
                     !.fails = IF r.ok THEN @ ELSE @ + 1]
  IN  IF AttemptSucceeded(r) \/ IsFinalAttempt(u.i, c.maxRetries)
        THEN AfterFetch([u EXCEPT !.fwr = "returned", !.fwrRet = r], c, r)
      ELSE RetryDelay(u, c)

\* The transport resolved with response r.
OnResponse(t, c, r) ==
  LET u == [t EXCEPT !.lastResp = r,
                     !.lastOutcome = IF r.ok THEN "ok" ELSE "notok",
                     !.fails = IF r.ok THEN @ ELSE @ + 1]
  IN  IF AttemptSucceeded(r)
        THEN AfterFetch([u EXCEPT !.fwr = "returned", !.fwrRet = r], c, r)
      ELSE IF IsFinalAttempt(u.i, c.maxRetries)
        THEN Catch(u, c, FinalAttemptError(r))
      ELSE RetryDelay(u, c)

\* The transport rejected with error e.
OnThrow(t, c, e) ==
  Catch([t EXCEPT !.lastThrown = e, !.lastOutcome = "throw",
                  !.throws = @ + 1], c, e)

\* The delay of the loop body is over: i++ and the loop's test.
AfterRetryDelay(t, c) == Attempt([t EXCEPT !.i = @ + 1], c)

(* --------------------------- the environment --------------------------- *)

TaskIds == {"t1", "t2"}

\* The remote service gives every prediction it creates an id of its own.
FreshUuid == [t1 |-> "u1", t2 |-> "u2"]

\* The prediction a status or cancel URL names.
UrlUuid(t) ==
  IF t.fn = "cancelPrediction" THEN t.req.url[Len(t.req.url) - 1]
  ELSE t.req.url[Len(t.req.url)]

\* The bodies the remote may send with a success status to the request task p
\* is waiting on.  left is the number of polls it may still answer with a
\* pending status.
RemoteJson(p, t, left) ==
  CASE t.fn = "create" ->
         TerminalPreds(FreshUuid[p]) \cup PendingPreds(FreshUuid[p])
    [] t.fn = "get" ->
         {[prediction |-> q] :
            q \in TerminalPreds(UrlUuid(t))
                    \cup (IF left > 0
                            THEN PolledPendingPreds(UrlUuid(t)) ELSE {})}
    [] t.fn = "cancelPrediction" ->
         {Pred("canceled", Undefined, Undefined, UrlUuid(t))}
    [] t.fn = "listModels" -> {[models |-> "all"]}
    [] t.fn = "getModelMetadata" -> {[model |-> "metadata"]}

\* The polls the remote may still answer with a pending status, after it has
\* sent body json to request t.
RemoteAfter(t, json, left) ==
  IF t.fn = "get" /\ json.prediction.status \in PendingStatuses
    THEN left - 1 ELSE left

(* ------------------------------- actions ------------------------------- *)

\* A client that keeps the prediction of the latest step in a field of the
\* instance, where every call on the instance reads it.
CommitShared(tk, p, new) ==
  [q \in DOMAIN tk |->
     IF q = p THEN new ELSE [tk[q] EXCEPT !.prediction = new.prediction]]

\* Locals live in the call's own frame: a step of task p changes p alone.
Commit(tk, p, new) == [tk EXCEPT ![p] = new]

Starts(p, op) == p \in DOMAIN task /\ task[p].pc = "start" /\ task[p].op = op

Run(p) ==
  /\ Starts(p, "run")
  /\ task' = Commit(task, p, CreateCall(task[p], client))
  /\ UNCHANGED <<client, remote>>

Create(p) ==
  /\ Starts(p, "create")
  /\ task' = Commit(task, p, CreateCall(task[p], client))
  /\ UNCHANGED <<client, remote>>

Get(p) ==
  /\ Starts(p, "get")
  /\ task' = Commit(task, p, GetCall(task[p], client, task[p].arg))
  /\ UNCHANGED <<client, remote>>

CheckStatus(p) ==
  /\ Starts(p, "checkStatus")
  /\ task' = Commit(task, p, GetCall(task[p], client, task[p].arg))
  /\ UNCHANGED <<client, remote>>

CancelPrediction(p) ==
  /\ Starts(p, "cancelPrediction")
  /\ task' = Commit(task, p, CancelCall(task[p], client, task[p].arg))
  /\ UNCHANGED <<client, remote>>

ListModels(p) ==
  /\ Starts(p, "listModels")
  /\ task' = Commit(task, p, ListCall(task[p], client))
  /\ UNCHANGED <<client, remote>>

GetModelMetadata(p) ==
  /\ Starts(p, "getModelMetadata")
  /\ task' = Commit(task, p, MetadataCall(task[p], client))
  /\ UNCHANGED <<client, remote>>

\* The transport resolves with a success response.
TransportOk(p) ==
  /\ p \in DOMAIN task /\ task[p].pc = "fetch"
  /\ \E json \in RemoteJson(p, task[p], remote[p]) :
       /\ task' = Commit(task, p,
                         OnResponse(task[p], client, OkResponse(json)))
       /\ remote' = [remote EXCEPT
                       ![p] = RemoteAfter(task[p], json, remote[p])]
  /\ UNCHANGED client

\* The transport resolves with a non-success response.
TransportNotOk(p) ==
  /\ p \in DOMAIN task /\ task[p].pc = "fetch"
  /\ \E r \in ErrorResponses :
       task' = Commit(task, p, OnResponse(task[p], client, r))
  /\ UNCHANGED <<client, remote>>

\* The transport rejects.
TransportThrows(p) ==
  /\ p \in DOMAIN task /\ task[p].pc = "fetch"
  /\ \E e \in NetworkErrors :
       task' = Commit(task, p, OnThrow(task[p], client, e))
  /\ UNCHANGED <<client, remote>>

\* The delay between two attempts of fetchWithRetry is over.
RetryDelayElapsed(p) ==
  /\ p \in DOMAIN task /\ task[p].pc = "retryDelay"
  /\ task' = Commit(task, p, AfterRetryDelay(task[p], client))
  /\ UNCHANGED <<client, remote>>

\* The delay of run's loop is over: prediction = await this.get(prediction).
PollDelayElapsed(p) ==
  /\ p \in DOMAIN task /\ task[p].pc = "pollDelay"
  /\ task' = Commit(task, p, GetCall(task[p], client, task[p].prediction))
  /\ UNCHANGED <<client, remote>>

(* ---------------------------- specifications --------------------------- *)

\* One call on a freshly constructed client.
Init ==
  /\ \E o \in Options : client = Constructor(o)
  /\ task \in [{"t1"} -> Calls]
  /\ remote = [p \in {"t1"} |-> MaxPolls]

Next ==
  \E p \in TaskIds :
    \/ Run(p)
    \/ Create(p)
    \/ Get(p)
    \/ CheckStatus(p)
    \/ CancelPrediction(p)
    \/ ListModels(p)
    \/ GetModelMetadata(p)
    \/ TransportOk(p)
    \/ TransportNotOk(p)
    \/ TransportThrows(p)
    \/ RetryDelayElapsed(p)
    \/ PollDelayElapsed(p)

Spec == Init /\ [][Next]_vars

\* Two concurrent run calls on one client.
ConcOptions == [timeout : {0}, maxRetries : {1, 2}, apiKey : {NoApiKey}]

ConcIds ==
  {m \in ModelIds : Len(m) = 3 /\ m[1] # Colon /\ m[2] = Colon /\ m[3] # Colon}

InitConc ==
  /\ \E o \in ConcOptions : client = Constructor(o)
  /\ task \in [TaskIds -> {NewTask("run", m, NoPred) : m \in ConcIds}]
  /\ remote = [p \in TaskIds |-> MaxConcPolls]

NextConc ==
  \E p \in TaskIds :
    \/ Run(p)
    \/ TransportOk(p)
    \/ TransportNotOk(p)
    \/ TransportThrows(p)
    \/ RetryDelayElapsed(p)
    \/ PollDelayElapsed(p)

SpecConc == InitConc /\ [][NextConc]_vars

\* A run against a remote whose prediction never turns terminal, over a
\* transport whose every call succeeds.
RemoteStaysPending(p) ==
  /\ p \in DOMAIN task /\ task[p].pc = "fetch"
  /\ \E q \in PendingPreds(FreshUuid[p]) :
       task' = Commit(task, p,
                 OnResponse(task[p], client,
                   OkResponse(IF task[p].fn = "create" THEN q
                              ELSE [prediction |-> q])))
  /\ UNCHANGED <<client, remote>>

\* The next poll of the run, as long as the model follows it.
PollAgain(p) ==
  /\ p \in DOMAIN task /\ task[p].gets < MaxStuckPolls
  /\ PollDelayElapsed(p)

InitStuck ==
  /\ \E o \in Options : client = Constructor(o)
  /\ task \in [{"t1"} -> {NewTask("run", m, NoPred) : m \in ModelIds}]
  /\ remote = [p \in {"t1"} |-> MaxStuckPolls]

NextStuck ==
  \E p \in TaskIds :
    \/ Run(p)
    \/ RemoteStaysPending(p)
    \/ PollAgain(p)

\* The event loop runs every timer that is due and every promise that has
\* settled.
SpecStuck == InitStuck /\ [][NextStuck]_vars /\ WF_vars(NextStuck)

\* A transport whose every request succeeds within maxRetries attempts: an
\* attempt may fail only while another one remains.
NotOkBeforeLast(p) ==
  /\ p \in DOMAIN task /\ task[p].calls < client.maxRetries
  /\ TransportNotOk(p)

ThrowsBeforeLast(p) ==
  /\ p \in DOMAIN task /\ task[p].calls < client.maxRetries
  /\ TransportThrows(p)

\* One run against a remote that answers pending at most MaxPolls times and
\* terminal from then on.
InitLive ==
  /\ \E o \in Options : client = Constructor(o)
  /\ task \in [{"t1"} -> {NewTask("run", m, NoPred) : m \in ConcIds}]
  /\ remote = [p \in {"t1"} |-> MaxPolls]

NextLive ==
  \E p \in TaskIds :
    \/ Run(p)
    \/ TransportOk(p)
    \/ NotOkBeforeLast(p)
    \/ ThrowsBeforeLast(p)
    \/ RetryDelayElapsed(p)
    \/ PollAgain(p)

\* Every request is answered, every timer fires and every continuation runs.
SpecLive == InitLive /\ [][NextLive]_vars /\ WF_vars(NextLive)

(* -------------------------------- claims ------------------------------- *)

Tasks == DOMAIN task

Done(t) == t.pc = "done"

Returned(t) == Done(t) /\ t.error = NoError

Failed(t) == Done(t) /\ t.error # NoError

\* The error the specification names MalformedIdentifier.
MalformedIdentifierError == <<"Malformed model identifier">>

\* C1: for a model identifier without ':', create and run fail with
\* MalformedIdentifier and never call the transport.  (The code does not test
\* the identifier: this is the claim as stated, which the code violates.)
C1_MalformedIdentifierBeforeTransport ==
  \A p \in Tasks :
    LET t == task[p]
    IN  (t.op \in {"create", "run"} /\ ~HasColon(t.model) /\ t.pc # "start")
          => /\ t.totalCalls = 0
             /\ Done(t)
             /\ t.error = MalformedIdentifierError

\* C2: when the transport answers the first N-1 calls of fetchWithRetry with a
\* non-success response and call N with a success response (N <= maxRetries),
\* fetchWithRetry returns that response and has made exactly N calls.
C2_SuccessOnAttemptN ==
  \A p \in Tasks :
    LET t == task[p]
    IN  /\ (t.lastOutcome = "ok" /\ t.throws = 0)
             => /\ t.fwr = "returned"
                /\ t.calls = t.fails + 1
                /\ t.calls <= client.maxRetries
        /\ (t.fwr = "returned" /\ t.throws = 0)
             => /\ t.fwrRet = t.lastResp
                /\ t.fwrRet.ok
                /\ t.calls = t.fails + 1

C2_Witness ==
  \E p \in Tasks :
    /\ task[p].fwr = "returned" /\ task[p].throws = 0
    /\ task[p].calls = 3 /\ task[p].fails = 2
    /\ client.maxRetries = 3

\* C3: when every call of the transport fails (a non-success response or a
\* thrown error), fetchWithRetry makes exactly maxRetries calls and then
\* throws: it never makes more calls, never gives up earlier, never returns.
C3_AlwaysFailingExhausts ==
  \A p \in Tasks :
    LET t == task[p]
    IN  /\ t.calls <= client.maxRetries
        /\ t.fwr = "threw"
             => /\ t.calls = client.maxRetries
                /\ t.fails + t.throws = t.calls
                /\ Failed(t)
        /\ (t.fwr # "none" /\ t.fails + t.throws = t.calls)
             => t.fwr # "returned"

C3_Witness ==
  \E p \in Tasks :
    /\ task[p].fwr = "threw" /\ task[p].calls = 3
    /\ task[p].fails >= 1 /\ task[p].throws >= 1
    /\ Failed(task[p])

\* run whose every HTTP call succeeded at once, whose create returned a
\* pending prediction and whose last get returned 'succeeded'.
C4_Case(t) ==
  /\ t.op = "run" /\ Done(t)
  /\ t.totalCalls = 1 + t.gets
  /\ t.createPred.status \in PendingStatuses
  /\ t.prediction.status = "succeeded"

\* C4 as stated: after n pending get answers and then 'succeeded' with output
\* V, run has made exactly n poll delays and returns V.
C4_Original ==
  \A p \in Tasks :
    C4_Case(task[p])
      => /\ task[p].pollDelays = task[p].pendingGets
         /\ Returned(task[p])
         /\ task[p].result = task[p].prediction.output

\* C4, amended: after n pending get answers and then 'succeeded' with output
\* V, run has made exactly n + 1 poll delays, one before each of its n + 1
\* get calls, and returns V.
C4_PollDelaysAmended ==
  \A p \in Tasks :
    C4_Case(task[p])
      => /\ task[p].pollDelays = task[p].pendingGets + 1
         /\ task[p].pollDelays = task[p].gets
         /\ Returned(task[p])
         /\ task[p].result = task[p].prediction.output
         /\ task[p].prediction = task[p].lastResp.json.prediction

C4_Witness ==
  \E p \in Tasks :
    /\ C4_Case(task[p])
    /\ task[p].pendingGets = 2 /\ task[p].pollDelays = 3
    /\ task[p].result = "v2"

\* C5: when the create response already has status 'failed' with error E,
\* run fails with PredictionFailed(E) and has made no get request and no poll
\* delay.
C5_FailedAtCreate ==
  \A p \in Tasks :
    LET t == task[p]
    IN  (t.op = "run" /\ t.createPred.status = "failed")
          => /\ Failed(t)
             /\ t.error = <<"Prediction failed: ", t.createPred.error>>
             /\ t.gets = 0 /\ t.pollDelays = 0
             /\ t.totalCalls = t.calls

C5_Witness ==
  \E p \in Tasks :
    /\ task[p].op = "run" /\ task[p].createPred.status = "failed"
    /\ task[p].error = <<"Prediction failed: ", "boom">>

\* The prediction of the latest success response of run's create or get.
LastObserved(t) ==
  IF t.fn = "create" THEN t.fwrRet.json ELSE t.fwrRet.json.prediction

\* C6: run's outcome is that of the first terminal prediction it observes:
\* 'succeeded' returns that prediction's output, 'failed' throws
\* PredictionFailed with its error, and run never returns while the status it
\* last observed is pending.
C6_FirstTerminalDecides ==
  \A p \in Tasks :
    LET t == task[p]
    IN  t.op = "run"
          => /\ t.terminalSeen <= 1
             /\ t.fwr = "returned" => t.prediction = LastObserved(t)
             /\ t.prediction.status = "succeeded"
                  => Returned(t) /\ t.result = t.prediction.output
             /\ t.prediction.status = "failed"
                  => /\ Failed(t)
                     /\ t.error = <<"Prediction failed: ", t.prediction.error>>
             /\ Returned(t) => t.prediction.status \notin PendingStatuses
             /\ Returned(t) => t.terminalSeen = 1

C6_Witness ==
  \E p \in Tasks :
    /\ task[p].op = "run" /\ Failed(task[p])
    /\ task[p].prediction.status = "failed"
    /\ task[p].pendingGets = 1
    /\ task[p].error = <<"Prediction failed: ", "bang">>

\* C7: when the first terminal status run observes is 'canceled', run stops
\* polling and returns the output of that prediction, absent or not, without
\* an error.
C7_CanceledReturnsOutput ==
  \A p \in Tasks :
    LET t == task[p]
    IN  (t.op = "run" /\ t.prediction.status = "canceled")
          => /\ Returned(t)
             /\ t.result = t.prediction.output
             /\ t.prediction = LastObserved(t)

C7_Witness ==
  \E p \in Tasks :
    /\ task[p].op = "run" /\ task[p].prediction.status = "canceled"
    /\ Returned(task[p]) /\ task[p].result = Undefined
    /\ task[p].gets = 2

\* The steps a run call in state t can take when it is the only call on the
\* client: the step of its own code at its own await, on any answer of the
\* environment.
SoloSteps(p, t, c, left) ==
  CASE t.pc = "start" -> {CreateCall(t, c)}
    [] t.pc = "fetch" ->
         {OnResponse(t, c, OkResponse(j)) : j \in RemoteJson(p, t, left)}
           \cup {OnResponse(t, c, r) : r \in ErrorResponses}
           \cup {OnThrow(t, c, e) : e \in NetworkErrors}
    [] t.pc = "retryDelay" -> {AfterRetryDelay(t, c)}
    [] t.pc = "pollDelay" -> {GetCall(t, c, t.prediction)}
    [] OTHER -> {}

\* Every request of a run after create is for the prediction that its own
\* create returned.
PollsOwnPrediction(p) ==
  LET t == task[p]
  IN  /\ t.prediction.uuid \in {"none", FreshUuid[p]}
      /\ t.fn = "get"
           => /\ t.req.url = PredictionUrl(client, t.createPred)
              /\ t.createPred.uuid = FreshUuid[p]

\* C8: in every interleaving of concurrent run calls on one client, each step
\* is a step of one call, the step that call would take alone from its own
\* state; it leaves the state of every other call and the client's
\* configuration unchanged, and every call polls its own prediction.
C8_ConcurrentRunsIndependent ==
  /\ [][/\ client' = client
        /\ \E p \in Tasks :
             /\ task'[p] \in SoloSteps(p, task[p], client, remote[p])
             /\ \A q \in Tasks \ {p} : task'[q] = task[q]]_vars
  /\ [](\A p \in Tasks : PollsOwnPrediction(p))

C8_Witness ==
  /\ Returned(task["t1"]) /\ task["t1"].result = "v1"
  /\ task["t1"].pendingGets = 1
  /\ task["t2"].pc = "retryDelay" /\ task["t2"].gets = 2
  /\ task["t2"].totalCalls > task["t1"].totalCalls

\* C9 as stated: when every attempt of an operation's HTTP call returned a
\* non-success status, create, get and cancelPrediction each fail with an
\* error of their own that carries the final status code and response body.
C9_OperationSpecificError ==
  \A p \in Tasks :
    LET t == task[p]
    IN  (/\ t.fn \in {"create", "get", "cancelPrediction"}
         /\ Done(t) /\ t.fwr = "threw"
         /\ t.fails = t.calls)
          => /\ Failed(t)
             /\ t.error[1] = NotOkPrefix(t.fn)
             /\ \E k \in 1..Len(t.error) : t.error[k] = t.lastResp.status
             /\ \E k \in 1..Len(t.error) : t.error[k] = t.lastResp.text

\* What a get call in the place of checkStatus call t does on the same answer.
AsGet(t) == [t EXCEPT !.op = "get"]

\* checkStatus call a and get call b took the same step.
SameAsGet(a, b) ==
  /\ a.pc = b.pc /\ a.error = b.error /\ a.req = b.req
  /\ a.totalCalls = b.totalCalls
  /\ Returned(b) => a.result = b.result.status

\* C10: checkStatus issues the request get issues, returns the status field
\* of the prediction get returns for the same response, and fails exactly
\* when get fails.
C10_CheckStatusIsGetStatus ==
  \A p \in Tasks :
    LET t == task[p]
        c == client
    IN  t.op = "checkStatus"
          => /\ Returned(t) => t.result = LastObserved(t).status
             /\ Failed(t) => t.fwr = "threw"
             /\ t.pc = "start"
                  => SameAsGet(GetCall(t, c, t.arg), GetCall(AsGet(t), c, t.arg))
             /\ t.pc # "start"
                  => t.req = [method |-> "GET",
                              url |-> PredictionUrl(c, t.arg),
                              auth |-> <<>>, body |-> "none"]
             /\ t.pc = "fetch"
                  => /\ \A j \in RemoteJson(p, t, remote[p]) :
                          SameAsGet(OnResponse(t, c, OkResponse(j)),
                                    OnResponse(AsGet(t), c, OkResponse(j)))
                     /\ \A r \in ErrorResponses :
                          SameAsGet(OnResponse(t, c, r),
                                    OnResponse(AsGet(t), c, r))
                     /\ \A e \in NetworkErrors :
                          SameAsGet(OnThrow(t, c, e), OnThrow(AsGet(t), c, e))
             /\ t.pc = "retryDelay"
                  => SameAsGet(AfterRetryDelay(t, c), AfterRetryDelay(AsGet(t), c))

C10_Witness ==
  \E p \in Tasks :
    /\ task[p].op = "checkStatus" /\ Returned(task[p])
    /\ task[p].result = "processing"
    /\ task[p].calls = 2

\* C11: when every HTTP call succeeds and the remote never reports a
\* terminal status, run never returns and never fails, and it goes on
\* polling: the number of its get calls only grows and reaches every value
\* the model follows it to.
C11_PollsForever ==
  /\ [](\A p \in Tasks : ~Done(task[p]))
  /\ [][\A p \in Tasks : task'[p].gets >= task[p].gets]_vars
  /\ <>(\A p \in Tasks : task[p].gets = MaxStuckPolls)

C11_Witness ==
  \E p \in Tasks :
    /\ task[p].op = "run" /\ task[p].pc = "fetch"
    /\ task[p].gets = MaxStuckPolls
    /\ task[p].totalCalls = MaxStuckPolls + 1
    /\ task[p].prediction.status = "processing"

\* The text of an identifier before its first ':' and all of it after.
BeforeFirstColon(s) == SubSeq(s, 1, NextSep(s, Colon, 1) - 1)

AfterFirstColon(s) == SubSeq(s, NextSep(s, Colon, 1) + 1, Len(s))

\* C12: for every identifier with at least one ':', create sends its
\* request to baseUrl/path/versions/version/predictions, path being the
\* text before the first ':' and version all the text after it, further
\* ':' included.
C12_UrlFromFirstColon ==
  \A p \in Tasks :
    LET t == task[p] IN
      (t.fn = "create" /\ HasColon(t.model)) =>
        t.req.url = <<client.baseUrl, "/">> \o BeforeFirstColon(t.model)
                      \o <<"/versions/">> \o AfterFirstColon(t.model)
                      \o <<"/predictions">>

\* fetchWithRetry has failed after maxRetries attempts, none of them a
\* success.
AllAttemptsFailed(t) ==
  /\ t.fwr = "threw"
  /\ t.calls = client.maxRetries
  /\ t.fails + t.throws = t.calls

\* The error of the last attempt: the wrapped response, or what the
\* transport threw.
LastAttemptError(t) ==
  IF t.lastOutcome = "notok" THEN FinalAttemptError(t.lastResp)
  ELSE t.lastThrown

\* C13 as stated: when all maxRetries attempts have failed, fetchWithRetry
\* fails with the generic 'Max retries reached' error.
C13_Original ==
  \A p \in Tasks :
    AllAttemptsFailed(task[p]) => task[p].error = MaxRetriesError

\* C13, amended: when all maxRetries attempts have failed, fetchWithRetry
\* fails with the error of its last attempt ('Final attempt failed with
\* status S: body' after a non-success response, the thrown error itself
\* after a throw) and never with the generic 'Max retries reached' error.
C13_FailsWithLastAttemptError ==
  \A p \in Tasks :
    LET t == task[p] IN
      /\ t.fwr = "threw" => AllAttemptsFailed(t)
      /\ AllAttemptsFailed(t) =>
           /\ t.lastOutcome \in {"notok", "throw"}
           /\ t.error = LastAttemptError(t)
           /\ t.error # MaxRetriesError
           /\ Failed(t)

C13_Witness ==
  \E p \in Tasks :
    /\ AllAttemptsFailed(task[p])
    /\ task[p].calls = DefaultMaxRetries
    /\ task[p].lastOutcome = "notok"
    /\ task[p].error = FinalAttemptError(task[p].lastResp)

\* C14: fetchWithRetry delays, by the client's fixed interval, after a
\* failed attempt that is not the last one, and at no other time: while it
\* waits it has made as many delays as attempts, each of the interval, and
\* attempts remain; otherwise it has made one delay fewer than attempts, so
\* none before the first attempt, none after a success and none after the
\* final failure (N attempts, N - 1 delays).
C14_RetryDelays ==
  \A p \in Tasks :
    LET t == task[p] IN
      t.fwr # "none" =>
        /\ t.pc = "retryDelay" =>
             /\ t.fwr = "active"
             /\ t.lastOutcome \in {"notok", "throw"}
             /\ t.calls < client.maxRetries
             /\ t.retryDelays = t.calls
             /\ t.delayMs = client.timeout
        /\ t.pc # "retryDelay" => t.retryDelays = t.calls - 1
        /\ t.fwr = "returned" =>
             t.lastOutcome = "ok" /\ t.retryDelays = t.fails + t.throws
        /\ t.fwr = "threw" => t.retryDelays = client.maxRetries - 1

C14_Witness ==
  \E p \in Tasks :
    /\ task[p].fwr = "returned"
    /\ task[p].calls = DefaultMaxRetries
    /\ task[p].retryDelays = DefaultMaxRetries - 1
    /\ task[p].op = "getModelMetadata"
    /\ task[p].delayMs = 100

\* The transport call of task p throws in this step.
ThrowsNow(p) ==
  /\ p \in Tasks /\ task[p].pc = "fetch"
  /\ task'[p].throws = task[p].throws + 1

\* C15: a transport call that throws uses up one attempt of the same budget
\* as a non-success response: attempts are numbered by i, one call each,
\* whatever their outcome, and never more than maxRetries.  A throw before
\* the last attempt is followed by the fixed delay and then by the next
\* attempt; a throw on the last attempt makes fetchWithRetry fail with the
\* very error the transport threw.
C15_ThrowConsumesOneAttempt ==
  /\ [][\A p \in TaskIds :
          /\ ThrowsNow(p) =>
               /\ task'[p].calls = task[p].calls /\ task'[p].i = task[p].i
               /\ task'[p].fails = task[p].fails
               /\ IF task[p].calls = client.maxRetries
                    THEN /\ task'[p].fwr = "threw" /\ Failed(task'[p])
                         /\ task'[p].error = task'[p].lastThrown
                         /\ task'[p].error \in NetworkErrors
                    ELSE /\ task'[p].pc = "retryDelay"
                         /\ task'[p].delayMs = client.timeout
                         /\ task'[p].fwr = "active"
          /\ (p \in Tasks /\ task[p].pc = "retryDelay"
                /\ task'[p] # task[p]) =>
               /\ task'[p].pc = "fetch"
               /\ task'[p].calls = task[p].calls + 1
               /\ task'[p].i = task[p].i + 1]_vars
  /\ [](\A p \in Tasks :
          task[p].fwr = "active" =>
            /\ task[p].calls = task[p].i + 1
            /\ task[p].calls <= client.maxRetries
            /\ task[p].fails + task[p].throws
                 = task[p].calls - (IF task[p].pc = "fetch" THEN 1 ELSE 0))

C15_Witness ==
  \E p \in Tasks :
    /\ task[p].fwr = "threw" /\ task[p].lastOutcome = "throw"
    /\ task[p].throws = 2 /\ task[p].fails = 1
    /\ task[p].error \in NetworkErrors

\* Task p issues a transport call in this step.
CallsNow(p) == task'[p].totalCalls = task[p].totalCalls + 1

\* Task p enters get in this step.
GetsNow(p) == task'[p].gets = task[p].gets + 1

\* C16: inside run the create call comes before every get call; every get
\* call is entered straight from one poll delay of the fixed interval, one
\* delay per get (a retried transport call of a get comes straight from
\* fetchWithRetry's own delay instead); and once run has seen a terminal
\* status it issues no further request and no further delay.
C16_RunOrder ==
  /\ [][\A p \in TaskIds :
          (p \in Tasks /\ task[p].op = "run") =>
            /\ GetsNow(p) =>
                 /\ task[p].pc = "pollDelay"
                 /\ task[p].delayMs = client.timeout
                 /\ task[p].pollDelays = task[p].gets + 1
                 /\ task[p].createPred.status \in PendingStatuses
                 /\ CallsNow(p) /\ task'[p].fn = "get"
            /\ (CallsNow(p) /\ task'[p].fn = "get" /\ ~GetsNow(p)) =>
                 task[p].pc = "retryDelay" /\ task[p].fn = "get"
            /\ (CallsNow(p) /\ task'[p].fn = "create") =>
                 task[p].gets = 0 /\ task[p].pollDelays = 0
            /\ (task'[p].pc = "pollDelay" /\ task[p].pc # "pollDelay") =>
                 /\ task'[p].pollDelays = task[p].pollDelays + 1
                 /\ task'[p].terminalSeen = 0
            /\ task[p].terminalSeen >= 1 => task'[p] = task[p]]_vars
  /\ [](\A p \in Tasks :
          task[p].op = "run" =>
            /\ task[p].pollDelays
                 = task[p].gets + (IF task[p].pc = "pollDelay" THEN 1 ELSE 0)
            /\ task[p].gets >= 1 =>
                 task[p].createPred.status \in PendingStatuses
            /\ task[p].terminalSeen >= 1 =>
                 Done(task[p]) /\ task[p].terminalSeen = 1)

C16_Witness ==
  \E p \in Tasks :
    /\ task[p].op = "run" /\ Returned(task[p])
    /\ task[p].terminalSeen = 1
    /\ task[p].gets = 2 /\ task[p].pollDelays = 2
    /\ task[p].totalCalls > 3

\* C17: when the create call or a get call of run uses up its attempts, run
\* fails with the error of that call, returns no output, and does nothing
\* more: no further request, no further poll, no delay.
C17_RunFailsWithCallError ==
  /\ [](\A p \in Tasks :
          (task[p].op = "run" /\ task[p].fwr = "threw") =>
            /\ Failed(task[p])
            /\ task[p].error = LastAttemptError(task[p])
            /\ task[p].result = Undefined
            /\ task[p].terminalSeen = 0
            /\ task[p].fn = "create" =>
                 task[p].gets = 0 /\ task[p].totalCalls = task[p].calls)
  /\ [][\A p \in TaskIds :
          (p \in Tasks /\ task[p].op = "run" /\ task[p].fwr = "threw") =>
            task'[p] = task[p]]_vars

C17_Witness ==
  \E p \in Tasks :
    /\ task[p].op = "run" /\ task[p].fn = "get" /\ task[p].gets = 2
    /\ task[p].fwr = "threw" /\ Failed(task[p])
    /\ task[p].lastOutcome = "notok"
    /\ task[p].error = FinalAttemptError(task[p].lastResp)
    /\ task[p].result = Undefined

\* C18: when the remote reports a terminal status from some poll on and
\* every HTTP call succeeds within maxRetries attempts, run completes: it
\* returns the output of a succeeded or canceled prediction or fails with
\* PredictionFailed, after at most one poll more than the remote's pending
\* answers.
C18_RunCompletes ==
  /\ <>(\A p \in Tasks : Done(task[p]))
  /\ [](\A p \in Tasks :
          /\ task[p].gets <= MaxPolls + 1
          /\ Done(task[p]) =>
               IF task[p].prediction.status = "failed"
                 THEN task[p].error = PredictionFailedError(task[p].prediction)
                 ELSE /\ Returned(task[p])
                      /\ task[p].prediction.status
                           \in {"succeeded", "canceled"}
                      /\ task[p].result = task[p].prediction.output)

C18_Witness ==
  \E p \in Tasks :
    /\ Returned(task[p]) /\ task[p].prediction.status = "succeeded"
    /\ task[p].pendingGets = 2 /\ task[p].gets = 3
    /\ task[p].totalCalls >= 6
    /\ task[p].throws >= 1

\* The operations that test response.ok after fetchWithRetry.
HttpOperations ==
  {"create", "get", "cancelPrediction", "listModels", "getModelMetadata"}

\* C19: fetchWithRetry never returns a response that is not ok: what it
\* returns is the success response of its last attempt.  So none of the
\* five operations ever takes its own 'not ok' branch: no call fails with
\* an operation's 'Failed to ...' error.
C19_NeverReturnsNotOk ==
  \A p \in Tasks :
    LET t == task[p] IN
      /\ t.fwr = "returned" =>
           /\ t.fwrRet.ok /\ t.fwrRet = t.lastResp
           /\ t.lastOutcome = "ok"
      /\ t.fwr # "none" => t.fn \in HttpOperations
      /\ Failed(t) => \A fn \in HttpOperations : t.error[1] # NotOkPrefix(fn)
      /\ (Failed(t) /\ t.fwr = "returned") =>
           t.op = "run" /\ t.prediction.status = "failed"

C19_Witness ==
  \E p \in Tasks :
    /\ task[p].fn = "listModels" /\ task[p].fwr = "returned"
    /\ task[p].fails = 1 /\ task[p].throws = 1
    /\ task[p].fwrRet.ok /\ Returned(task[p])

\* Task p enters an HTTP operation in this step.
EntersOperation(p) ==
  /\ p \in Tasks /\ task[p].pc \in {"start", "pollDelay"}
  /\ task'[p] # task[p]

\* C20: every HTTP operation starts fetchWithRetry with a budget of its
\* own: it begins at attempt 0 whatever the operations before it used, and
\* issues at most maxRetries transport calls.  So a run that has entered k
\* polls has issued at least 1 + k and at most maxRetries * (1 + k)
\* transport calls, and a call of any other operation at most maxRetries.
C20_FreshBudgetPerOperation ==
  /\ [][\A p \in TaskIds :
          EntersOperation(p) =>
            /\ task'[p].i = 0 /\ task'[p].calls = 1
            /\ task'[p].fails = 0 /\ task'[p].throws = 0
            /\ task'[p].totalCalls = task[p].totalCalls + 1]_vars
  /\ [](\A p \in Tasks :
          LET t == task[p] IN
            t.pc # "start" =>
              /\ t.calls >= 1 /\ t.calls <= client.maxRetries
              /\ t.op = "run" =>
                   /\ t.totalCalls >= 1 + t.gets
                   /\ t.totalCalls <= client.maxRetries * (1 + t.gets)
              /\ t.op # "run" => t.totalCalls = t.calls)

C20_Witness ==
  \E p \in Tasks :
    /\ task[p].op = "run" /\ Returned(task[p])
    /\ client.maxRetries = DefaultMaxRetries
    /\ task[p].gets = 2
    /\ task[p].totalCalls = DefaultMaxRetries * 3

====
